---- MODULE Spec2Model ----
(***************************************************************************)
(* Model of src/main.py: the paginated fetchers of hh.ru and superjob.ru,  *)
(* the salary predictor and the per-language statistics aggregator.        *)
(*                                                                         *)
(* One run of the state machine is one call of get_hh_statistics or of     *)
(* get_sj_statistics (src says which) against a mocked HTTP transport.     *)
(* The aggregator's for loop drives the fetcher's generator, so the whole  *)
(* pipeline is one sequential process whose position is pc:                *)
(*   "loop"   at `for language in languages`                               *)
(*   "fetch"  at `for page in count()` inside the generator                *)
(*   "items"  at `for vacancy in page_content[...]` inside the generator   *)
(*   "done"   after `return language_statistics`                           *)
(*   "raised" after an exception left the statistics function              *)
(* The only nondeterminism is the transport's answer to a page request.    *)
(***************************************************************************)
EXTENDS Integers, Sequences, FiniteSets

VARIABLES
    src,                  \* "hh" or "sj": the statistics function that runs
    scenario,             \* the mocked transport (see Responses)
    languages,            \* the input list of languages
    lang,                 \* index in languages of the language being processed
    pc,                   \* control position, see above
    page,                 \* the generator's `page` (itertools.count)
    page_content,         \* the generator's `page_content`
    idx,                  \* position of the generator's inner for loop
    vacancy_count,        \* the local `vacancy_count`: <<>> unbound, <<v>> bound
    vacancies_processed,
    salaries_sum,
    language_statistics,
    result,               \* <<>> nothing returned, <<rows>> the returned list
    exception,            \* "none", "HTTPError" or "UnboundLocalError"
    requests,             \* history: page requests issued for this language
    responses,            \* history: successful responses for this language
    yielded,              \* history: pairs the generator yielded for it
    http_failed,          \* history: the transport answered with a non-success status
    count_lang,           \* history: language whose pair last bound vacancy_count
    found_lang,           \* history: count_lang at the time each row was built
    salary_from,          \* predictor run: the arguments drawn
    salary_to,
    predicted,            \* predictor run: the value returned
    predict_pc            \* predictor run: "call" or "returned"

vars ==
    <<src, scenario, languages, lang, pc, page, page_content, idx,
      vacancy_count, vacancies_processed, salaries_sum, language_statistics,
      result, exception, requests, responses, yielded, http_failed,
      count_lang, found_lang, salary_from, salary_to, predicted, predict_pc>>

pipeline_vars ==
    <<src, scenario, languages, lang, pc, page, page_content, idx,
      vacancy_count, vacancies_processed, salaries_sum, language_statistics,
      result, exception, requests, responses, yielded, http_failed,
      count_lang, found_lang>>

predict_vars ==
    <<salary_from, salary_to, predicted, predict_pc>>

----------------------------------------------------------------------------
(* Bounds of the model *)

\* longest input list of languages
MaxLangs == 2
\* the "finite" transport signals completion at page index MaxPage at the latest
MaxPage == 1
\* salary bounds 0..MaxBound are drawn for the predictor, besides 1000 and 2000
MaxBound == 12
\* the "three_pages" transport: TestedPages pages of TestedPerPage listings
TestedPages == 3
TestedPerPage == 10

(* Program constants *)

\* `page == 200` in fetch_hh_vacancies
HH_PAGE_CEILING == 200
\* `page == 50` in fetch_sj_vacancies
SJ_PAGE_CEILING == 50

\* Python's None where an int is expected (salary bounds and predictions are
\* naturals in this model, so -1 is no salary)
None == -1

\* programming_languages of main(), reordered so that the end-to-end example
\* ["Go", "Ruby"] is a prefix
ProgrammingLanguages ==
    <<"Go", "Ruby", "JavaScript", "Python", "Java", "C#", "PHP", "C++", "C">>

Sources == {"hh", "sj"}
Scenarios == {"finite", "runaway", "three_pages"}

----------------------------------------------------------------------------
(* Salary predictor *)

\* Python truthiness of an Union[None, int]
Truthy(x) == x # None /\ x # 0

\* variant: the bounds are tested with `is not None` instead of truthiness
predict_salary_none_checks(sfrom, sto) ==
    IF sfrom # None /\ sto # None THEN (sfrom + sto) \div 2
    ELSE IF sfrom # None THEN (sfrom * 12) \div 10
    ELSE IF sto # None THEN (sto * 8) \div 10
    ELSE None

\* variant: the factors 1.2 and 0.8 are swapped
predict_salary_swapped(sfrom, sto) ==
    IF Truthy(sfrom) /\ Truthy(sto) THEN (sfrom + sto) \div 2
    ELSE IF Truthy(sfrom) THEN (sfrom * 8) \div 10
    ELSE IF Truthy(sto) THEN (sto * 12) \div 10
    ELSE None

\* predict_salary.  int(x * 1.2), int(x * 0.8) and int((a + b) / 2) go through
\* floats in the source; for naturals below 2^50 the float product of a
\* multiple of 5 is the exact integer and every other product is at least 1/5
\* away from an integer, so the truncation equals the exact integer division.
predict_salary(sfrom, sto) ==
    IF Truthy(sfrom) /\ Truthy(sto) THEN (sfrom + sto) \div 2
    ELSE IF Truthy(sfrom) THEN (sfrom * 12) \div 10
    ELSE IF Truthy(sto) THEN (sto * 8) \div 10
    ELSE None

\* A listing.  empty: the listing is a falsy value ({} or None).  has_salary:
\* hh.ru's vacancy['salary'] is not None (superjob.ru has no such level).
Vacancy(e, s, f, t, c) ==
    [empty |-> e, has_salary |-> s, from |-> f, to |-> t, currency |-> c]

predict_rub_salary_hh(vacancy) ==
    IF vacancy.has_salary /\ vacancy.currency = "RUR"
    THEN predict_salary(vacancy.from, vacancy.to)
    ELSE None

predict_rub_salary_sj(vacancy) ==
    IF vacancy.currency = "rub"
    THEN predict_salary(vacancy.from, vacancy.to)
    ELSE None

predict_rub_salary(s, vacancy) ==
    IF s = "hh" THEN predict_rub_salary_hh(vacancy) ELSE predict_rub_salary_sj(vacancy)

----------------------------------------------------------------------------
(* The mocked transport *)

Rub(s) == IF s = "hh" THEN "RUR" ELSE "rub"

EmptyVacancy == Vacancy(TRUE, FALSE, None, None, "")

\* a listing without salary data: salary None on hh.ru, 0/0 payments on superjob.ru
NoSalary(s) ==
    IF s = "hh" THEN Vacancy(FALSE, FALSE, None, None, "")
    ELSE Vacancy(FALSE, TRUE, 0, 0, "rub")

\* the canned pages the finite transport chooses from, each with the total it
\* reports: an empty page; two listings predicted 1000 and 2000; a page of
\* listings the aggregator skips (a prediction of 0, a falsy listing, no salary
\* data); a listing with a zero lower bound and one in another currency
CannedPages(s) ==
    { [items |-> <<>>, found |-> 7],
      [items |-> <<Vacancy(FALSE, TRUE, 1000, 1000, Rub(s)),
                   Vacancy(FALSE, TRUE, 2000, 2000, Rub(s))>>, found |-> 7],
      [items |-> <<Vacancy(FALSE, TRUE, None, 1, Rub(s)), EmptyVacancy, NoSalary(s)>>,
       found |-> 9],
      [items |-> <<Vacancy(FALSE, TRUE, 0, 1000, Rub(s)),
                   Vacancy(FALSE, TRUE, 1000, 2000, "USD")>>, found |-> 9] }

\* the listings the three_pages transport cycles through
TestedKinds(s) ==
    << Vacancy(FALSE, TRUE, 1000, 2000, Rub(s)),
       Vacancy(FALSE, TRUE, 1000, None, Rub(s)),
       Vacancy(FALSE, TRUE, None, 1000, Rub(s)),
       NoSalary(s),
       Vacancy(FALSE, TRUE, 500, 700, "USD") >>

TestedBody(s, p) ==
    [j \in 1..TestedPerPage |->
        TestedKinds(s)[((p * TestedPerPage + j) % Len(TestedKinds(s))) + 1]]

Response(items, found, pages, more) ==
    [items |-> items, found |-> found, pages |-> pages, more |-> more]

\* The successful answers to the request for page p.  A response carries both
\* continuation signals; a fetcher reads only its own ('pages' on hh.ru, 'more'
\* on superjob.ru).
\*   finite       any canned page, completion signalled by page MaxPage
\*   runaway      completion is never signalled
\*   three_pages  TestedPages pages of TestedPerPage listings, then an empty
\*                terminal page
Responses(s, sc, p) ==
    IF sc = "finite" THEN
        { Response(c.items, c.found, pg, m) :
            c \in CannedPages(s),
            pg \in (IF s = "hh" THEN 0..MaxPage ELSE {0}),
            m \in (IF s = "sj" /\ p < MaxPage THEN BOOLEAN ELSE {FALSE}) }
    ELSE IF sc = "runaway" THEN
        { Response(<<Vacancy(FALSE, TRUE, 1000, 2000, Rub(s))>>, 1000 + p, p + 1, TRUE) }
    ELSE IF p < TestedPages THEN
        { Response(TestedBody(s, p), 100 + p, TestedPages, TRUE) }
    ELSE
        { Response(<<>>, 100 + p, TestedPages, FALSE) }

----------------------------------------------------------------------------
(* The fetchers *)

\* page_content before the first request
Seed == Response(<<>>, 0, 0, TRUE)

\* variant: the test `page == 200` is missing
HHBreak_no_ceiling(p, content) ==
    p > content.pages

\* fetch_hh_vacancies: `if page > page_content['pages'] or page == 200: break`
HHBreak(p, content) ==
    p > content.pages \/ p = HH_PAGE_CEILING

\* variant: the test of page_content['more'] is missing
SJBreak_ignores_more(p, content) ==
    p = SJ_PAGE_CEILING

\* fetch_sj_vacancies: `if not page_content['more'] or page == 50: break`
SJBreak(p, content) ==
    ~content.more \/ p = SJ_PAGE_CEILING

Break(s, p, content) ==
    IF s = "hh" THEN HHBreak(p, content) ELSE SJBreak(p, content)

\* variant: every listing is paired with the total of the first page
YieldPair_first_total(content, i, history) ==
    <<content.items[i], history[1].found>>

\* `yield vacancy, page_content['found']` / `yield vacancy, page_content['total']`
YieldPair(content, i, history) ==
    <<content.items[i], content.found>>

----------------------------------------------------------------------------
(* The aggregator *)

Locals(count, processed, sum) ==
    [vacancy_count |-> count, vacancies_processed |-> processed, salaries_sum |-> sum]

\* variant: vacancy_count is bound only for a processed listing
AggregatePair_binds_late(s, locals, pair) ==
    IF pair[1].empty \/ ~Truthy(predict_rub_salary(s, pair[1]))
    THEN locals
    ELSE Locals(<<pair[2]>>,
                locals.vacancies_processed + 1,
                locals.salaries_sum + predict_rub_salary(s, pair[1]))

\* one iteration of `for vacancy, vacancy_count in ..._vacancies:`
AggregatePair(s, locals, pair) ==
    IF pair[1].empty
    THEN Locals(<<pair[2]>>, locals.vacancies_processed, locals.salaries_sum)
    ELSE IF ~Truthy(predict_rub_salary(s, pair[1]))
    THEN Locals(<<pair[2]>>, locals.vacancies_processed, locals.salaries_sum)
    ELSE Locals(<<pair[2]>>,
                locals.vacancies_processed + 1,
                locals.salaries_sum + predict_rub_salary(s, pair[1]))

\* int((salaries_sum / vacancies_processed) if vacancies_processed else 0):
\* a float division of naturals, truncated; for sums below 2^53 a quotient
\* that is no integer is at least 1/vacancies_processed away from one, so the
\* truncation is the integer division
AverageSalary(sum, processed) ==
    IF processed # 0 THEN sum \div processed ELSE 0

Row(language, count, processed, sum) ==
    <<language, count, processed, AverageSalary(sum, processed)>>

----------------------------------------------------------------------------
(* Initial states *)

PredictIdle ==
    /\ salary_from = None
    /\ salary_to = None
    /\ predicted = None
    /\ predict_pc = "idle"

PipelineInit ==
    /\ src \in Sources
    /\ scenario \in Scenarios
    /\ languages \in {SubSeq(ProgrammingLanguages, 1, n) : n \in 0..MaxLangs}
    /\ lang = 1
    /\ pc = "loop"
    /\ page = 0
    /\ page_content = Seed
    /\ idx = 1
    /\ vacancy_count = <<>>
    /\ vacancies_processed = 0
    /\ salaries_sum = 0
    /\ language_statistics = <<>>
    /\ result = <<>>
    /\ exception = "none"
    /\ requests = <<>>
    /\ responses = <<>>
    /\ yielded = <<>>
    /\ http_failed = FALSE
    /\ count_lang = 0
    /\ found_lang = <<>>

Init ==
    /\ PipelineInit
    /\ PredictIdle

----------------------------------------------------------------------------
(* Actions of the statistics functions *)

\* `for language in languages:` takes the next language, resets the two
\* accumulators and creates the generator (which runs nothing yet)
StartLanguage ==
    /\ pc = "loop"
    /\ lang <= Len(languages)
    /\ vacancies_processed' = 0
    /\ salaries_sum' = 0
    /\ page' = 0
    /\ page_content' = Seed
    /\ idx' = 1
    /\ requests' = <<>>
    /\ responses' = <<>>
    /\ yielded' = <<>>
    /\ pc' = "fetch"
    /\ UNCHANGED <<src, scenario, languages, lang, vacancy_count,
                   language_statistics, result, exception, http_failed,
                   count_lang, found_lang, predict_vars>>

\* the generator requests page `page` and the transport answers with success
Request ==
    /\ pc = "fetch"
    /\ ~Break(src, page, page_content)
    /\ \E r \in Responses(src, scenario, page) :
          /\ page_content' = r
          /\ responses' = Append(responses, r)
    /\ requests' = Append(requests, page)
    /\ idx' = 1
    /\ pc' = "items"
    /\ UNCHANGED <<src, scenario, languages, lang, page, vacancy_count,
                   vacancies_processed, salaries_sum, language_statistics,
                   result, exception, yielded, http_failed, count_lang,
                   found_lang, predict_vars>>

\* variant: the HTTPError is caught, the language gets a row with total 0 and
\* the loop goes on with the next language
RequestFail_swallowed ==
    /\ pc = "fetch"
    /\ ~Break(src, page, page_content)
    /\ requests' = Append(requests, page)
    /\ http_failed' = TRUE
    /\ pc' = "loop"
    /\ language_statistics' =
          Append(language_statistics,
                 Row(languages[lang], 0, vacancies_processed, salaries_sum))
    /\ found_lang' = Append(found_lang, 0)
    /\ lang' = lang + 1
    /\ UNCHANGED <<src, scenario, languages, page, page_content, idx,
                   vacancy_count, vacancies_processed, salaries_sum, result,
                   exception, responses, yielded, count_lang, predict_vars>>

\* the generator requests page `page`, the transport answers with a non-success
\* status and raise_for_status() raises; nothing catches the HTTPError, so it
\* leaves the generator and the statistics function, whose list is lost
RequestFail ==
    /\ pc = "fetch"
    /\ ~Break(src, page, page_content)
    /\ requests' = Append(requests, page)
    /\ http_failed' = TRUE
    /\ exception' = "HTTPError"
    /\ pc' = "raised"
    /\ UNCHANGED <<src, scenario, languages, lang, page, page_content, idx,
                   vacancy_count, vacancies_processed, salaries_sum,
                   language_statistics, result, responses, yielded,
                   count_lang, found_lang, predict_vars>>

\* the generator yields the next listing of the page and the aggregator's loop
\* body handles the pair
Yield ==
    /\ pc = "items"
    /\ idx <= Len(page_content.items)
    /\ LET pair == YieldPair(page_content, idx, responses)
           new == AggregatePair(src,
                                Locals(vacancy_count, vacancies_processed, salaries_sum),
                                pair)
       IN  /\ yielded' = Append(yielded, pair)
           /\ vacancy_count' = new.vacancy_count
           /\ vacancies_processed' = new.vacancies_processed
           /\ salaries_sum' = new.salaries_sum
           /\ count_lang' = lang
    /\ idx' = idx + 1
    /\ UNCHANGED <<src, scenario, languages, lang, pc, page, page_content,
                   language_statistics, result, exception, requests, responses,
                   http_failed, found_lang, predict_vars>>

\* the page's listings are exhausted: count() gives the next page index
NextPage ==
    /\ pc = "items"
    /\ idx > Len(page_content.items)
    /\ page' = page + 1
    /\ pc' = "fetch"
    /\ UNCHANGED <<src, scenario, languages, lang, page_content, idx,
                   vacancy_count, vacancies_processed, salaries_sum,
                   language_statistics, result, exception, requests, responses,
                   yielded, http_failed, count_lang, found_lang, predict_vars>>

\* the generator breaks out of its loop and ends, the aggregator's for loop
\* ends and the row of the language is appended
EndLanguage ==
    /\ pc = "fetch"
    /\ Break(src, page, page_content)
    /\ vacancy_count # <<>>
    /\ language_statistics' =
          Append(language_statistics,
                 Row(languages[lang], vacancy_count[1], vacancies_processed, salaries_sum))
    /\ found_lang' = Append(found_lang, count_lang)
    /\ lang' = lang + 1
    /\ pc' = "loop"
    /\ UNCHANGED <<src, scenario, languages, page, page_content, idx,
                   vacancy_count, vacancies_processed, salaries_sum, result,
                   exception, requests, responses, yielded, http_failed,
                   count_lang, predict_vars>>

\* the same, but no pair was ever yielded in this call: `vacancy_count` is an
\* unbound local and building the row raises UnboundLocalError
EndLanguageUnbound ==
    /\ pc = "fetch"
    /\ Break(src, page, page_content)
    /\ vacancy_count = <<>>
    /\ exception' = "UnboundLocalError"
    /\ pc' = "raised"
    /\ UNCHANGED <<src, scenario, languages, lang, page, page_content, idx,
                   vacancy_count, vacancies_processed, salaries_sum,
                   language_statistics, result, requests, responses, yielded,
                   http_failed, count_lang, found_lang, predict_vars>>

\* `return language_statistics`
Return ==
    /\ pc = "loop"
    /\ lang > Len(languages)
    /\ result' = <<language_statistics>>
    /\ pc' = "done"
    /\ UNCHANGED <<src, scenario, languages, lang, page, page_content, idx,
                   vacancy_count, vacancies_processed, salaries_sum,
                   language_statistics, exception, requests, responses,
                   yielded, http_failed, count_lang, found_lang, predict_vars>>

Next ==
    \/ StartLanguage
    \/ Request
    \/ RequestFail
    \/ Yield
    \/ NextPage
    \/ EndLanguage
    \/ EndLanguageUnbound
    \/ Return

Spec == Init /\ [][Next]_vars

\* the sequential program always takes its next step
FairSpec == Spec /\ WF_vars(Next)

----------------------------------------------------------------------------
(* Notions the properties are stated in *)

\* the row of a language was just built: the histories are those of that language
LastDone == pc \in {"loop", "done"} /\ Len(language_statistics) >= 1

LastRow == language_statistics[Len(language_statistics)]

Ceiling(s) == IF s = "hh" THEN HH_PAGE_CEILING ELSE SJ_PAGE_CEILING

\* the pairs a response's page stands for
PagePairs(r) == [j \in 1..Len(r.items) |-> <<r.items[j], r.found>>]

\* the pairs a sequence of responses stands for (the recursion halves the
\* sequence, so that its depth stays small for long fetches)
RECURSIVE Expected(_)
Expected(rs) ==
    IF Len(rs) = 0 THEN <<>>
    ELSE IF Len(rs) = 1 THEN PagePairs(rs[1])
    ELSE Expected(SubSeq(rs, 1, Len(rs) \div 2))
         \o Expected(SubSeq(rs, Len(rs) \div 2 + 1, Len(rs)))

\* the adapter of the source gives a prediction for the listing
Resolvable(s, v) == ~v.empty /\ predict_rub_salary(s, v) # None

\* the aggregator processes the listing
Processed(s, v) == ~v.empty /\ predict_rub_salary(s, v) \notin {None, 0}

ResolvableCount(s, ps) ==
    Cardinality({i \in 1..Len(ps) : Resolvable(s, ps[i][1])})

ProcessedCount(s, ps) ==
    Cardinality({i \in 1..Len(ps) : Processed(s, ps[i][1])})

\* the sum of the predictions of the pairs ps[lo..hi] that are not None
RECURSIVE PredictionSum(_, _, _, _)
PredictionSum(s, ps, lo, hi) ==
    IF lo > hi THEN 0
    ELSE IF lo = hi
    THEN (IF Resolvable(s, ps[lo][1]) THEN predict_rub_salary(s, ps[lo][1]) ELSE 0)
    ELSE PredictionSum(s, ps, lo, (lo + hi) \div 2)
         + PredictionSum(s, ps, (lo + hi) \div 2 + 1, hi)

\* a prediction of 0 adds nothing, so the resolvable and the processed
\* predictions have the same sum
ResolvableSum(s, ps) == PredictionSum(s, ps, 1, Len(ps))

ProcessedSum(s, ps) == PredictionSum(s, ps, 1, Len(ps))

\* r, the response for page p, says that page p + 1 exists
IndicatesMore(s, r, p) == IF s = "hh" THEN p + 1 <= r.pages ELSE r.more

\* a bound is present under the zero-as-absent rule
Present(b) == b \notin {None, 0}

\* the part of C8 that does not depend on every row being built
RowsInOrder ==
    /\ Len(language_statistics) <= Len(languages)
    /\ \A i \in 1..Len(language_statistics) :
          /\ Len(language_statistics[i]) = 4
          /\ language_statistics[i][1] = languages[i]
    /\ pc = "done" =>
          /\ result = <<language_statistics>>
          /\ Len(language_statistics) = Len(languages)
    /\ LastDone =>
          LET k == ProcessedCount(src, yielded)
              S == ProcessedSum(src, yielded)
          IN  /\ LastRow[3] = k
              /\ LastRow[4] = IF k > 0 THEN S \div k ELSE 0
    /\ pc \in {"fetch", "items"} =>
          /\ lang <= Len(languages)
          /\ Len(language_statistics) = lang - 1

----------------------------------------------------------------------------
(* Properties *)

\* C1: when the row of a language is built, its totalProcessed is the number k
\* of yielded listings whose adapter result is not None and its averageSalary
\* is floor(S / k) for the sum S of those results (0 when k = 0), a prediction
\* of 0 included.  The code skips a prediction of 0, so this is violated.
C1_RowCountsEveryPrediction ==
    LastDone =>
        LET k == ResolvableCount(src, yielded)
            S == ResolvableSum(src, yielded)
        IN  /\ LastRow[3] = k
            /\ LastRow[4] = IF k > 0 THEN S \div k ELSE 0

\* C2: a language whose fetch yields no pair still gets a row, built from a
\* default of the source: building it never fails on the unbound local, and the
\* total of a row never comes from a pair of an earlier language (found_lang is
\* 0 for a default, else the language the total was read from).  Violated both
\* ways by the code.
C2_ZeroListingsGetDefaultTotal ==
    /\ exception # "UnboundLocalError"
    /\ \A i \in 1..Len(found_lang) : found_lang[i] \in {0, i}

\* C3: no request carries a page index at or above the ceiling of the source,
\* a fetch issues at most that many requests, a transport that never signals
\* completion gets exactly the requests 0..ceiling-1, and the run terminates.
C3_HaltsAtPageCeiling ==
    /\ [](/\ \A i \in 1..Len(requests) : requests[i] < Ceiling(src)
          /\ Len(requests) <= Ceiling(src)
          /\ (scenario = "runaway" /\ LastDone
                => requests = [i \in 1..Ceiling(src) |-> i - 1]))
    /\ <>(pc \in {"done", "raised"})

C3_Witness ==
    /\ scenario = "runaway"
    /\ src = "hh"
    /\ LastDone
    /\ Len(requests) = HH_PAGE_CEILING
    /\ Len(yielded) = HH_PAGE_CEILING

\* C4: between pages and at the end of a fetch the pairs yielded are exactly
\* the listings of the pages received, in page order and in within-page order,
\* each with the total of its own page; inside a page they are those of the
\* earlier pages and of the part of the page already walked.
C4_YieldsEachListingWithOwnTotal ==
    /\ pc # "items" => yielded = Expected(responses)
    /\ pc = "items" =>
          yielded = Expected(SubSeq(responses, 1, Len(responses) - 1))
                    \o SubSeq(PagePairs(page_content), 1, idx - 1)

C4_Witness ==
    /\ scenario = "three_pages"
    /\ LastDone
    /\ Len(responses) = TestedPages + 1
    /\ responses[TestedPages + 1].items = <<>>
    /\ \A p \in 1..TestedPages : Len(responses[p].items) = TestedPerPage
    /\ Len(yielded) = TestedPages * TestedPerPage
    /\ yielded[1][2] # yielded[Len(yielded)][2]

\* C5: predict_salary returns the truncated midpoint when both bounds are
\* present, the lower bound times 1.2 truncated when only it is present, the
\* upper bound times 0.8 truncated when only it is present, None when neither
\* is (present under the zero-as-absent rule of the same section).
C5_PredictRule ==
    predict_pc = "returned" =>
        /\ Present(salary_from) /\ Present(salary_to) =>
              /\ 2 * predicted <= salary_from + salary_to
              /\ salary_from + salary_to < 2 * predicted + 2
        /\ Present(salary_from) /\ ~Present(salary_to) =>
              /\ 10 * predicted <= 12 * salary_from
              /\ 12 * salary_from < 10 * predicted + 10
        /\ ~Present(salary_from) /\ Present(salary_to) =>
              /\ 10 * predicted <= 8 * salary_to
              /\ 8 * salary_to < 10 * predicted + 10
        /\ ~Present(salary_from) /\ ~Present(salary_to) => predicted = None
        /\ salary_from = 1000 /\ salary_to = 2000 => predicted = 1500
        /\ salary_from = 1000 /\ salary_to = None => predicted = 1200
        /\ salary_from = None /\ salary_to = 1000 => predicted = 800

C5_Witness ==
    /\ predict_pc = "returned"
    /\ salary_from = 1000
    /\ salary_to = 2000
    /\ predicted = 1500

\* C6: a bound of 0 gives what an absent bound gives: predict(0, u) is
\* predict(None, u), predict(l, 0) is predict(l, None), predict(0, 0) is None
\* and predict(0, 1000) is 800.
C6_ZeroBoundIsAbsent ==
    predict_pc = "returned" =>
        /\ salary_from = 0 => predicted = predict_salary(None, salary_to)
        /\ salary_to = 0 => predicted = predict_salary(salary_from, None)
        /\ salary_from = 0 /\ salary_to = 0 => predicted = None
        /\ salary_from = 0 /\ salary_to = 1000 => predicted = 800

C6_Witness ==
    /\ predict_pc = "returned"
    /\ salary_from = 0
    /\ salary_to = 1000
    /\ predicted = 800

\* C7: once a page request was answered with a non-success status the
\* statistics function has raised HTTPError and returned nothing, and nothing
\* happens any more (no request, no yield, no row, no later language); the
\* failing step itself issues the one request and yields nothing.
C7_HttpErrorAbortsEverything ==
    /\ [](http_failed => exception = "HTTPError" /\ pc = "raised" /\ result = <<>>)
    /\ [][http_failed => UNCHANGED vars]_vars
    /\ [][~http_failed /\ http_failed' =>
             /\ requests' = Append(requests, page)
             /\ \A i \in 1..Len(requests) : requests[i] # page
             /\ yielded' = yielded
             /\ language_statistics' = language_statistics
             /\ lang' = lang]_vars

C7_Witness ==
    /\ http_failed
    /\ exception = "HTTPError"
    /\ Len(language_statistics) >= 1
    /\ Len(responses) >= 1
    /\ result = <<>>

\* C8: a run that no transport error aborts builds a row for every language
\* (it raises nothing else); the rows built are those of the languages taken
\* so far, in input order; a returned list has one row per language; each row
\* carries the number of processed salaries of its language and their
\* truncated mean (0 without any); and a language is being fetched only when
\* the rows of all earlier languages, and no other, are built.  Violated where
\* the first language yields no pair: its row is never built.
C8_OneRowPerLanguageInOrder ==
    /\ pc = "raised" => exception = "HTTPError"
    /\ RowsInOrder

C8_Witness ==
    /\ pc = "done"
    /\ languages = <<"Go", "Ruby">>
    /\ Len(result[1]) = 2
    /\ result[1][1][1] = "Go"
    /\ result[1][1][3] = 2
    /\ result[1][1][4] = 1500
    /\ result[1][2][1] = "Ruby"
    /\ result[1][2][3] = 0
    /\ result[1][2][4] = 0

\* C9: the total of the row of a language that yielded a pair is the total of
\* the last pair yielded for it.
C9_TotalFoundIsLastPairs ==
    LastDone /\ yielded # <<>> => LastRow[2] = yielded[Len(yielded)][2]

C9_Witness ==
    /\ LastDone
    /\ Len(responses) >= 2
    /\ Len(yielded) >= 2
    /\ ~Processed(src, yielded[Len(yielded)][1])
    /\ Processed(src, yielded[1][1])
    /\ yielded[1][2] # yielded[Len(yielded)][2]
    /\ LastRow[2] = yielded[Len(yielded)][2]

\* C10: the requests of a fetch are for pages 0, 1, 2, ... once each; a fetch
\* that ended has requested page 0; and page p + 1 is requested only if the
\* response for page p said there are further pages.
C10_ConsecutivePagesWhileMore ==
    /\ requests = [i \in 1..Len(requests) |-> i - 1]
    /\ LastDone \/ pc \in {"items", "raised"} => Len(requests) >= 1
    /\ Len(responses) <= Len(requests)
    /\ Len(requests) <= Len(responses) + 1
    /\ \A i \in 2..Len(requests) :
          IndicatesMore(src, responses[i - 1], requests[i - 1])

C10_Witness ==
    /\ LastDone
    /\ scenario = "finite"
    /\ Len(requests) = 2
    /\ Len(responses) = 2
    /\ IndicatesMore(src, responses[1], 0)
    /\ ~IndicatesMore(src, responses[2], 1)

----------------------------------------------------------------------------
(* A run of the predictor alone *)

\* the bounds drawn for predict_salary
SalaryBounds == {None} \cup (0..MaxBound) \cup {1000, 2000}

PredictInit ==
    /\ salary_from \in SalaryBounds
    /\ salary_to \in SalaryBounds
    /\ predicted = None
    /\ predict_pc = "call"
    /\ src = "hh"
    /\ scenario = "finite"
    /\ languages = <<>>
    /\ lang = 1
    /\ pc = "done"
    /\ page = 0
    /\ page_content = Seed
    /\ idx = 1
    /\ vacancy_count = <<>>
    /\ vacancies_processed = 0
    /\ salaries_sum = 0
    /\ language_statistics = <<>>
    /\ result = <<>>
    /\ exception = "none"
    /\ requests = <<>>
    /\ responses = <<>>
    /\ yielded = <<>>
    /\ http_failed = FALSE
    /\ count_lang = 0
    /\ found_lang = <<>>

Predict ==
    /\ predict_pc = "call"
    /\ predicted' = predict_salary(salary_from, salary_to)
    /\ predict_pc' = "returned"
    /\ UNCHANGED <<salary_from, salary_to, pipeline_vars>>

PredictNext ==
    \/ Predict

PredictSpec == PredictInit /\ [][PredictNext]_vars

====
